---- MODULE Spec2Model ----
(***************************************************************************)
(* A model of rpc/rpc.py of xmm7360-pci: the ASN.1-flavoured wire codec    *)
(* (pack, _pack_string, take_asn_int, unpack), the frame header built by   *)
(* XMMRPC.execute and parsed by XMMRPC.handle_message, and the transaction *)
(* dispatcher (execute on the caller threads, handle_message on the reader *)
(* thread, the completion callbacks on threads of their own).              *)
(*                                                                         *)
(* Bytes are naturals in 0..255, byte strings are sequences of bytes, a    *)
(* format string is a sequence of one-character strings.  A Python         *)
(* exception (AssertionError, IndexError, KeyError, struct.error,          *)
(* ValueError) is a result whose ok field is FALSE.                        *)
(***************************************************************************)
EXTENDS Integers, Sequences, FiniteSets, TLC

\* ------------------------------------------------------------------------
\* Bounds of the model
\* ------------------------------------------------------------------------

\* caller threads of the concurrent specification
NumCallers == 2
\* calls to execute in one behaviour of the concurrent specification
MaxCalls == 2
\* chunks the peer sends that answer no request (unsolicited, unknown or
\* repeated ids, malformed chunks)
MaxJunk == 1
\* calls to execute, and chunks that answer no request, in one behaviour of
\* the specification of one caller thread
MaxOneCalls == 2
MaxOneJunk == 1
\* calls to execute in one behaviour of the sequential specification
MaxSeqCalls == 257
\* calls without an id in one behaviour of the sequential specification
MaxSeqSync == 1
\* blocking calls in one behaviour of the fair specification
MaxFairCalls == 2
\* calls to execute, and chunks that answer no request, in one behaviour of
\* the specification of one fairly scheduled caller
MaxLiveCalls == 1
MaxLiveJunk == 1
\* calls to execute in one behaviour of the specification of a slow
\* transaction: one more than there are ids
MaxWrapCalls == 256
\* fields of a format drawn for the codec specification
MaxFields == 2
\* capacity of the largest array field drawn for the codec specification
MaxCap == 260

\* ------------------------------------------------------------------------
\* Bytes and integers
\* ------------------------------------------------------------------------

Min(a, b) == IF a <= b THEN a ELSE b

\* Python's s[a:b] (0-based, end exclusive, clipped to the string)
PySlice(s, a, b) ==
    LET e == Min(b, Len(s))
    IN  IF a >= e THEN << >> ELSE SubSeq(s, a + 1, e)

\* Python's s[a:]
PyTail(s, a) == PySlice(s, a, Len(s))

\* a | b on naturals
RECURSIVE BitOr(_, _)
BitOr(a, b) ==
    IF a = 0 THEN b
    ELSE IF b = 0 THEN a
    ELSE (IF (a % 2) + (b % 2) > 0 THEN 1 ELSE 0) + 2 * BitOr(a \div 2, b \div 2)

\* string of n zero bytes: b'\0' * n
Zeros(n) == [i \in 1..n |-> 0]

\* a length word laid out most significant byte first
PackLE32Swapped(v) ==
    << (v \div 16777216) % 256, (v \div 65536) % 256, (v \div 256) % 256, v % 256 >>

\* struct.pack('<L', v)
PackLE32(v) ==
    << v % 256, (v \div 256) % 256, (v \div 65536) % 256, (v \div 16777216) % 256 >>

\* struct.pack('>L', v)
PackBE32(v) ==
    << (v \div 16777216) % 256, (v \div 65536) % 256, (v \div 256) % 256, v % 256 >>

\* struct.pack('>H', v)
PackBE16(v) == << (v \div 256) % 256, v % 256 >>

\* struct.unpack('<L', b)[0]; fails unless b has exactly 4 bytes
UnpackLE32(b) ==
    IF Len(b) # 4 THEN [ok |-> FALSE, val |-> 0]
    ELSE [ok |-> TRUE, val |-> b[1] + 256 * b[2] + 65536 * b[3] + 16777216 * b[4]]

\* struct.unpack('>L', b)[0]; fails unless b has exactly 4 bytes
UnpackBE32(b) ==
    IF Len(b) # 4 THEN [ok |-> FALSE, val |-> 0]
    ELSE [ok |-> TRUE, val |-> 16777216 * b[1] + 65536 * b[2] + 256 * b[3] + b[4]]

\* a failed call (a raised exception): no output
Failed == [ok |-> FALSE, out |-> << >>]

\* asn_int4(val): [ok, out]; struct.pack('>L', val) raises struct.error on
\* a negative val (and on one above 2^32 - 1, which no integer here is)
asn_int4(val) ==
    IF val < 0 THEN Failed ELSE [ok |-> TRUE, out |-> << 2, 4 >> \o PackBE32(val)]

\* ------------------------------------------------------------------------
\* Wire codec: pack, _pack_string
\* ------------------------------------------------------------------------

\* per decimal value 0..9 (at index value + 1), the characters int() reads
\* as that digit: the ASCII digit and the digits of other scripts (Unicode
\* category Nd), as far as a string literal can hold them
DigitChars ==
    << { "0", "۰", "߀", "০", "૦", "௦", "೦", "෦", "໐", "႐", "០", "᧐",
         "᪀", "᪐", "᮰", "꣐", "꧐", "꧰", "꯰" },
       { "1", "۱", "߁", "১", "૧", "௧", "೧", "෧", "໑", "႑", "១", "᧑",
         "᪁", "᪑", "᮱", "꣑", "꧑", "꧱", "꯱" },
       { "2", "۲", "߂", "২", "૨", "௨", "೨", "෨", "໒", "႒", "២", "᧒",
         "᪂", "᪒", "᮲", "꣒", "꧒", "꧲", "꯲" },
       { "3", "۳", "߃", "৩", "૩", "௩", "೩", "෩", "໓", "႓", "៣", "᧓",
         "᪃", "᪓", "᮳", "꣓", "꧓", "꧳", "꯳" },
       { "4", "۴", "߄", "৪", "૪", "௪", "೪", "෪", "໔", "႔", "៤", "᧔",
         "᪄", "᪔", "᮴", "꣔", "꧔", "꧴", "꯴" },
       { "5", "۵", "߅", "৫", "૫", "௫", "೫", "෫", "໕", "႕", "៥", "᧕",
         "᪅", "᪕", "᮵", "꣕", "꧕", "꧵", "꯵" },
       { "6", "۶", "߆", "৬", "૬", "௬", "೬", "෬", "໖", "႖", "៦", "᧖",
         "᪆", "᪖", "᮶", "꣖", "꧖", "꧶", "꯶" },
       { "7", "۷", "߇", "৭", "૭", "௭", "೭", "෭", "໗", "႗", "៧", "᧗",
         "᪇", "᪗", "᮷", "꣗", "꧗", "꧷", "꯷" },
       { "8", "۸", "߈", "৮", "૮", "௮", "೮", "෮", "໘", "႘", "៨", "᧘",
         "᪈", "᪘", "᮸", "꣘", "꧘", "꧸", "꯸" },
       { "9", "۹", "߉", "৯", "૯", "௯", "೯", "෯", "໙", "႙", "៩", "᧙",
         "᪉", "᪙", "᮹", "꣙", "꧙", "꧹", "꯹" } >>

\* the characters int() reads as decimal digits
DecimalDigits == UNION {DigitChars[i] : i \in 1..10}

\* the characters str.isdigit accepts and int() rejects: superscripts,
\* subscripts, circled and other digit forms (Unicode categories No)
OtherDigits ==
    { "²", "³", "¹", "᧚", "₀", "₁", "₂", "₃", "₄", "₅", "₆", "₇",
      "₈", "₉", "⒈", "⒉", "⒊", "⒋", "⒌", "⒍", "⒎", "⒏", "⒐", "⓪",
      "⓵", "⓶", "⓷", "⓸", "⓹", "⓺", "⓻", "⓼", "⓽", "⓿", "➀", "➁",
      "➂", "➃", "➄", "➅", "➆", "➇", "➈", "➊", "➋", "➌", "➍", "➎",
      "➏", "➐", "➑", "➒" }

\* the characters str.isdigit accepts
Digits == DecimalDigits \cup OtherDigits

\* int(ch) for a decimal digit character
DigitVal(ch) == CHOOSE v \in 0..9 : ch \in DigitChars[v + 1]

\* the loop of _pack_string that pops the leading digits of fmt, and
\* int(length_str): [n |-> characters popped, val |-> int(length_str),
\* ok |-> int() does not raise]
RECURSIVE TakeDigits(_, _, _)
TakeDigits(fmt, n, val) ==
    IF Len(fmt) > n /\ fmt[n + 1] \in Digits
    THEN IF fmt[n + 1] \in DecimalDigits
         THEN TakeDigits(fmt, n + 1, 10 * val + DigitVal(fmt[n + 1]))
         ELSE LET more == TakeDigits(fmt, n + 1, 0)
              IN  [n |-> more.n, val |-> 0, ok |-> FALSE]
    ELSE [n |-> n, val |-> val, ok |-> n > 0]

\* len(struct.pack(elem_type, 0)) in native mode on Linux/x86-64; 0 stands
\* for a character struct rejects or that takes no integer
ElemSize(elem_type) ==
    CASE elem_type \in {"B", "b", "?"} -> 1
      [] elem_type \in {"H", "h", "e"} -> 2
      [] elem_type \in {"I", "i", "f"} -> 4
      [] elem_type \in {"L", "l", "Q", "q", "n", "N", "P", "d"} -> 8
      [] OTHER -> 0

\* 256 ^ n
RECURSIVE Pow256(_)
Pow256(n) == IF n = 0 THEN 1 ELSE 256 * Pow256(n - 1)

\* 2 ^ n
RECURSIVE Pow2(_)
Pow2(n) == IF n = 0 THEN 1 ELSE 2 * Pow2(n - 1)

\* the position of the leading one bit of v > 0
RECURSIVE BitLen(_)
BitLen(v) == IF v = 0 THEN 0 ELSE 1 + BitLen(v \div 2)

\* the IEEE 754 bits, sign bit left out, of the natural v as a binary float
\* with m stored significand bits and exponent bias b, rounded to nearest,
\* ties to even: what struct packs for the element types 'e' and 'f'
FloatBits(v, m, b) ==
    IF v = 0 THEN 0
    ELSE LET n    == BitLen(v)
             drop == IF n > m + 1 THEN n - (m + 1) ELSE 0
             q    == v \div Pow2(drop)
             r    == v % Pow2(drop)
             half == IF drop = 0 THEN 1 ELSE Pow2(drop - 1)
             up   == drop > 0 /\ (r > half \/ (r = half /\ q % 2 = 1))
             sig  == (IF up THEN q + 1 ELSE q) * (IF drop = 0 THEN Pow2(m + 1 - n) ELSE 1)
         IN  \* a carry out of the significand lands in the exponent
             (n - 1 + b - 1) * Pow2(m) + sig

\* whether struct packs the integer v as one element of type elem_type
ElemFits(v, elem_type) ==
    CASE elem_type = "B" -> v >= 0 /\ v <= 255
      [] elem_type = "b" -> v >= -128 /\ v <= 127
      [] elem_type = "H" -> v >= 0 /\ v <= 65535
      [] elem_type = "h" -> v >= -32768 /\ v <= 32767
      [] elem_type = "I" -> v >= 0
      [] elem_type = "e" -> v > -65520 /\ v < 65520
      [] OTHER -> TRUE

\* the elem_size bytes of one element, in native byte order (little-endian):
\* two's complement for the integer types, 0 or 1 for '?', the IEEE 754
\* encoding for 'e' and 'f'
ElemBytes(v, elem_type, elem_size) ==
    LET a     == IF v < 0 THEN -v ELSE v
        bits  == CASE elem_type = "?" -> IF v = 0 THEN 0 ELSE 1
                   [] elem_type = "e" -> FloatBits(a, 10, 15)
                   [] elem_type = "f" -> FloatBits(a, 23, 127)
                   [] OTHER -> a
        float == elem_type \in {"e", "f"}
        \* the bytes of a negative integer: 256 ^ elem_size - a, byte by byte
        Neg(i) == 255 - (((a - 1) \div Pow256(i - 1)) % 256)
        Pos(i) == (bits \div Pow256(i - 1)) % 256
    IN  [i \in 1..elem_size |->
            IF v < 0 /\ ~float /\ elem_type # "?" THEN Neg(i)
            ELSE IF v < 0 /\ float /\ i = elem_size THEN Pos(i) + 128
            ELSE Pos(i)]

\* struct.pack('%d%s' % (valid, elem_type), *val): every element of val on
\* elem_size bytes
PackElems(val, elem_type, elem_size) ==
    [i \in 1..(Len(val) * elem_size) |->
        ElemBytes(val[((i - 1) \div elem_size) + 1], elem_type, elem_size)
            [((i - 1) % elem_size) + 1]]

\* the while loop of _pack_string over remain, on the list valid_field:
\* bump the lead byte, insert the low byte of remain at index 1, shift
RECURSIVE ValidFieldLoop(_, _)
ValidFieldLoop(remain, valid_field) ==
    IF remain > 0
    THEN ValidFieldLoop(remain \div 256,
                        << valid_field[1] + 1 >> \o << remain % 256 >> \o Tail(valid_field))
    ELSE valid_field

\* the occupied-count field of _pack_string
ValidField(valid) ==
    IF valid < 128 THEN << valid >> ELSE ValidFieldLoop(valid, << 128 >>)

\* the field type tag of an element size
FieldType(elem_size) ==
    CASE elem_size = 1 -> 85 [] elem_size = 2 -> 86 [] elem_size = 4 -> 87

RECURSIVE pack(_, _)

\* _pack_string(val, fmt, elem_type): [ok, out, fmt], fmt being what is
\* left of the format list after the capacity digits were popped
pack_string(val, fmt, elem_type) ==
    LET d         == TakeDigits(fmt, 0, 0)
        length    == d.val
        valid     == Len(val)
        elem_size == ElemSize(elem_type)
        rest      == PyTail(fmt, d.n)
        bad       == [ok |-> FALSE, out |-> << >>, fmt |-> rest]
    IN  IF ~d.ok THEN bad                            \* int() raises ValueError
        ELSE IF valid > length THEN bad              \* assert len(val) <= length
        ELSE IF elem_size \notin {1, 2, 4} THEN bad  \* struct.error, KeyError
        ELSE IF \E i \in 1..valid : ~ElemFits(val[i], elem_type)
             THEN bad                                \* struct.error
        ELSE LET count   == length * elem_size
                 padding == (length - valid) * elem_size
                 sizes   == pack(<< "L", "L" >>, << count, padding >>)
             IN  IF ~sizes.ok THEN bad
                 ELSE [ok  |-> TRUE,
                       out |-> << FieldType(elem_size) >> \o ValidField(valid)
                                 \o sizes.out \o PackElems(val, elem_type, elem_size)
                                 \o Zeros(padding),
                       fmt |-> rest]

\* pack(fmt, *args): [ok, out]
pack(fmt, args) ==
    IF Len(fmt) = 0
    THEN IF Len(args) > 0 THEN Failed               \* Too many args supplied
         ELSE [ok |-> TRUE, out |-> << >>]
    ELSE IF Len(args) = 0 THEN Failed               \* args.pop(0) raises
    ELSE
    LET arg  == Head(args)
        ch   == Head(fmt)
        fmt1 == Tail(fmt)
        then(field, fmt2) ==
            LET more == pack(fmt2, Tail(args))
            IN  IF more.ok THEN [ok |-> TRUE, out |-> field \o more.out] ELSE Failed
    IN  CASE ch = "B" -> IF arg < 0 \/ arg > 255 THEN Failed
                         ELSE then(<< 2, 1, arg >>, fmt1)
          [] ch = "H" -> IF arg < 0 \/ arg > 65535 THEN Failed
                         ELSE then(<< 2, 2 >> \o PackBE16(arg), fmt1)
          [] ch = "L" -> IF arg < 0 THEN Failed
                         ELSE then(<< 2, 4 >> \o PackBE32(arg), fmt1)
          [] ch = "s" -> LET f == pack_string(arg, fmt1, "B")
                         IN  IF f.ok THEN then(f.out, f.fmt) ELSE Failed
          [] ch = "S" -> IF Len(fmt1) = 0 THEN Failed
                         ELSE LET f == pack_string(arg, Tail(fmt1), Head(fmt1))
                              IN  IF f.ok THEN then(f.out, f.fmt) ELSE Failed
          [] OTHER    -> Failed                     \* Unknown format char

\* ------------------------------------------------------------------------
\* Wire codec: take_asn_int, unpack
\* ------------------------------------------------------------------------

\* the for loop of take_asn_int: shift l bytes into val, most significant
\* first; data.pop(0) raises on an empty buffer
RECURSIVE TakeBytesBE(_, _, _)
TakeBytesBE(data, l, val) ==
    IF l = 0 THEN [ok |-> TRUE, val |-> val, data |-> data]
    ELSE IF Len(data) = 0 THEN [ok |-> FALSE, val |-> 0, data |-> data]
    ELSE TakeBytesBE(Tail(data), l - 1, 256 * val + Head(data))

\* take_asn_int(data): [ok, val, data]
take_asn_int(data) ==
    IF Len(data) = 0 \/ Head(data) # 2 THEN [ok |-> FALSE, val |-> 0, data |-> data]
    ELSE IF Len(data) = 1 THEN [ok |-> FALSE, val |-> 0, data |-> Tail(data)]
    ELSE TakeBytesBE(PyTail(data, 2), data[2], 0)

\* the loop of unpack over an extended occupied count: byte number `byte`
\* is or-ed in shifted left by 8 * byte
RECURSIVE TakeBytesLE(_, _, _, _)
TakeBytesLE(data, n, byte, value) ==
    IF byte = n THEN [ok |-> TRUE, val |-> value, data |-> data]
    ELSE IF Len(data) = 0 THEN [ok |-> FALSE, val |-> 0, data |-> data]
    ELSE TakeBytesLE(Tail(data), n, byte + 1, BitOr(value, Head(data) * Pow256(byte)))

\* the 's' branch of unpack on the buffer data: [ok, val, data]
unpack_string(data) ==
    LET bad == [ok |-> FALSE, val |-> << >>, data |-> data]
    IN  IF Len(data) = 0 THEN bad                       \* t = data.pop(0)
        ELSE IF Head(data) \notin {85, 86, 87} THEN bad \* assert t in [...]
        ELSE IF Len(data) = 1 THEN bad                  \* valid = data.pop(0)
        ELSE
        LET t   == data[1]
            v0  == data[2]
            ext == IF v0 >= 128
                   THEN TakeBytesLE(PyTail(data, 2), v0 % 16, 0, 0)
                   ELSE [ok |-> TRUE, val |-> v0, data |-> PyTail(data, 2)]
        IN  IF ~ext.ok THEN bad
            ELSE
            LET valid   == CASE t = 86 -> ext.val * 2
                             [] t = 87 -> ext.val * 4
                             [] OTHER  -> ext.val
                count   == take_asn_int(ext.data)
                padding == take_asn_int(count.data)
            IN  IF ~count.ok \/ ~padding.ok THEN bad
                ELSE IF count.val # 0 /\ count.val # valid + padding.val THEN bad
                ELSE [ok   |-> TRUE,
                      val  |-> PySlice(padding.data, 0, valid),
                      data |-> PyTail(padding.data, valid + padding.val)]

\* unpack(fmt, data): [ok, out]
RECURSIVE unpack(_, _)
unpack(fmt, data) ==
    IF Len(fmt) = 0 THEN [ok |-> TRUE, out |-> << >>]
    ELSE
    LET ch == Head(fmt)
        r  == CASE ch = "n" -> take_asn_int(data)
                [] ch = "s" -> unpack_string(data)
                [] OTHER    -> [ok |-> FALSE, val |-> 0, data |-> data]
    IN  IF ~r.ok THEN Failed
        ELSE LET more == unpack(Tail(fmt), r.data)
             IN  IF more.ok THEN [ok |-> TRUE, out |-> << r.val >> \o more.out]
                 ELSE Failed

\* ------------------------------------------------------------------------
\* Frame header: built by execute, parsed by handle_message
\* ------------------------------------------------------------------------

\* the channel tag base 0x11000100
TidBase == 285212928

\* a cycle that starts at 0: itertools.cycle(range(0, 256))
TidCycleFromZero == [i \in 1..256 |-> i - 1]

\* itertools.cycle(range(1, 256)): the ids of one cycle, in order
TidCycle == [i \in 1..255 |-> i]

\* the local tid of execute: the base or-ed with the id drawn when there is
\* a callback, 0 when there is none
ExecTid(has_callback, id) == IF has_callback THEN BitOr(TidBase, id) ELSE 0

\* tid_word = 0x11000100 | tid
TidWord(tid) == BitOr(TidBase, tid)

\* total_length of execute
TotalLength(tid, body) == Len(body) + 16 + (IF tid # 0 THEN 6 ELSE 0)

\* header of execute: [ok, out]; asn_int4(cmd) raises on a cmd that is
\* no unsigned 32-bit integer
Header(cmd, tid, body) ==
    LET len1 == asn_int4(TotalLength(tid, body))
        code == asn_int4(cmd)
        id   == asn_int4(tid)
    IN  IF ~(len1.ok /\ code.ok /\ id.ok) THEN Failed
        ELSE [ok  |-> TRUE,
              out |-> PackLE32(TotalLength(tid, body)) \o len1.out \o code.out
                        \o PackBE32(TidWord(tid))
                        \o (IF tid # 0 THEN id.out ELSE << >>)]

\* header + body, the bytes execute hands to os.write; a struct.error of
\* the header or the assertion on total_length raises before anything is
\* written
ExecFrame(cmd, tid, body) ==
    LET header == Header(cmd, tid, body)
    IN  IF ~header.ok THEN Failed
        ELSE IF TotalLength(tid, body) + 4 # Len(header.out) + Len(body) THEN Failed
        ELSE [ok |-> TRUE, out |-> header.out \o body]

\* the head of handle_message, to the length check: the slices, the two
\* assertions and the four struct.unpack calls
ParseMessage(message) ==
    LET length == PySlice(message, 0, 4)
        len1_p == PySlice(message, 4, 10)
        code_p == PySlice(message, 10, 16)
        txid_b == PySlice(message, 16, 20)
        l0     == UnpackLE32(length)
        l1     == UnpackBE32(PyTail(len1_p, 2))
        code   == UnpackBE32(PyTail(code_p, 2))
        txid   == UnpackBE32(txid_b)
        bad    == [ok |-> FALSE, l0 |-> 0, l1 |-> 0, code |-> 0, txid |-> 0,
                   body |-> << >>, mismatch |-> FALSE]
    IN  IF PySlice(len1_p, 0, 2) # << 2, 4 >> THEN bad
        ELSE IF PySlice(code_p, 0, 2) # << 2, 4 >> THEN bad
        ELSE IF ~(l0.ok /\ l1.ok /\ code.ok /\ txid.ok) THEN bad
        ELSE [ok |-> TRUE, l0 |-> l0.val, l1 |-> l1.val, code |-> code.val,
              txid |-> txid.val, body |-> PyTail(message, 20),
              mismatch |-> l0.val # l1.val]

\* ------------------------------------------------------------------------
\* The dispatcher: state
\* ------------------------------------------------------------------------

VARIABLES
    callbacks,          \* self.callbacks: tag -> callback
    call_acknowledged,  \* self.call_acknowledged: set of tags
    response_event,     \* self.response_event: TRUE when set
    response,           \* self.response: None or (code, body)
    tid_gen,            \* self.tid_gen: ids drawn so far from the current cycle
    stop,               \* self._stop
    stop_pc,            \* where the thread that calls stop() stands
    reader_pc,          \* where the reader thread stands
    message,            \* dd, the chunk os.read returned last, as handle_message parses it
    pc,                 \* where each caller thread stands in execute
    kind,               \* the call of each caller: "sync", "cb" or "blocking"
    req,                \* the cmd and body arguments of each caller's call
    tid,                \* the local tid of each caller's call
    frame,              \* header + body of each caller's call
    waiter,             \* the waiter Event of each caller's call: TRUE when set
    ret,                \* what each caller's call returned
    cur,                \* the number of each caller's call among all calls
    cb_threads,         \* the callback threads started and not yet finished
    owed,               \* per tag, the frames the peer still owes the requests written
    nsent,              \* frames the peer sent in answer to a request
    njunk,              \* chunks read that answer no request
    ncalls,             \* calls to execute so far
    nalloc,             \* calls that drew an id so far
    delivered,          \* per caller, the arguments its current call's callback was started with
    nset,               \* calls of self.response_event.set() so far
    mark                \* per caller, nset when its call cleared self.response_event

dvars == << callbacks, call_acknowledged, response_event, response, tid_gen,
            stop, stop_pc, reader_pc, message, pc, kind, req, tid, frame, waiter, ret, cur,
            cb_threads, owed, nsent, njunk, ncalls, nalloc, delivered, nset,
            mark >>

VARIABLES
    codec_pc,           \* "start", "packed" or "unpacked"
    p_fmt,              \* pack: the format
    p_args,             \* pack: the values
    p_ret,              \* pack: what it returned, or that it raised
    u_fmt,              \* unpack: the format
    u_data,             \* unpack: the buffer
    u_ret               \* unpack: what it returned, or that it raised

cvars == << codec_pc, p_fmt, p_args, p_ret, u_fmt, u_data, u_ret >>

\* the stop flag and the thread inside stop()
svars == << stop, stop_pc >>

vars == << dvars, cvars >>

\* Python's None, and a tuple (code, body)
None == << >>
Pair(code, body) == << code, body >>

Callers == 1..NumCallers

EmptyMap == [x \in {} |-> 0]

\* a dict with key k set to v
Put(f, k, v) == [x \in DOMAIN f \cup {k} |-> IF x = k THEN v ELSE f[x]]

\* a dict with key k popped
Pop(f, k) == [x \in DOMAIN f \ {k} |-> f[x]]

\* command codes and bodies the callers pass, and what the peer answers with
Cmds == {66}
ReqBodies == {asn_int4(0).out}
SeqCmds == {66, 16909060}
SeqReqBodies == {<< >>, asn_int4(0).out, << 1, 2, 3 >>}

\* the peer numbers its answers: answer number n carries code 4096 + n and
\* the payload byte n % 256, so that no two answers in flight look alike
Answer(n) == [code |-> 4096 + n, p |-> n % 256]

\* a frame as the peer lays it out
PeerFrame(code, txid, body) ==
    PackLE32(Len(body) + 16) \o asn_int4(Len(body) + 16).out \o asn_int4(code).out
        \o PackBE32(txid) \o body

\* the peer's answer to a request of tag t: a synchronous response carries
\* the payload alone, a transaction's frame repeats the tag before it
AnswerFrame(t, a) ==
    PeerFrame(a.code, t, IF t = TidBase THEN << a.p >> ELSE asn_int4(t).out \o << a.p >>)

\* chunks that answer no request: an unsolicited push, a synchronous
\* response nobody asked for, frames of ids 1 and 200, a chunk without the
\* integer prefix, a short chunk
JunkChunks ==
    { PeerFrame(80, 0, << 7 >>),
      PeerFrame(80, TidBase, << 7 >>),
      PeerFrame(80, TidBase + 1, asn_int4(TidBase + 1).out \o << 7 >>),
      PeerFrame(80, TidBase + 200, asn_int4(TidBase + 200).out \o << 7 >>),
      PackLE32(17) \o << 4, 4 >> \o PackBE32(17) \o asn_int4(80).out \o PackBE32(TidBase) \o << 7 >>,
      << 2, 4, 0 >> }

\* the reader holds no chunk yet
NoMessage == ParseMessage(<< >>)

\* no call of the codec
CodecIdle ==
    /\ codec_pc = "start"
    /\ p_fmt = << >>
    /\ p_args = << >>
    /\ p_ret = Failed
    /\ u_fmt = << >>
    /\ u_data = << >>
    /\ u_ret = Failed

\* the state XMMRPC.__init__ leaves
InitDispatcher ==
    /\ callbacks = EmptyMap
    /\ call_acknowledged = {}
    /\ response_event = FALSE
    /\ response = None
    /\ tid_gen = 0
    /\ stop = FALSE
    /\ stop_pc = "idle"
    /\ reader_pc = "loop"
    /\ message = NoMessage
    /\ pc = [c \in Callers |-> "idle"]
    /\ kind = [c \in Callers |-> "sync"]
    /\ req = [c \in Callers |-> [cmd |-> 0, body |-> << >>]]
    /\ tid = [c \in Callers |-> 0]
    /\ frame = [c \in Callers |-> << >>]
    /\ waiter = [c \in Callers |-> FALSE]
    /\ ret = [c \in Callers |-> None]
    /\ cur = [c \in Callers |-> 0]
    /\ cb_threads = {}
    /\ owed = EmptyMap
    /\ nsent = 0
    /\ njunk = 0
    /\ ncalls = 0
    /\ nalloc = 0
    /\ delivered = [c \in Callers |-> << >>]
    /\ nset = 0
    /\ mark = [c \in Callers |-> 0]

Init == InitDispatcher /\ CodecIdle

\* ------------------------------------------------------------------------
\* execute, on a caller thread
\* ------------------------------------------------------------------------

\* next(self.tid_gen)
NextTid == TidCycle[tid_gen + 1]

\* the callback of a call: the caller's own, or the closure that stores the
\* result in self.response and sets the call's waiter
Callback(c, n, k) == [call |-> n, owner |-> c, blocking |-> (k = "blocking")]

\* lines 35-46: the waiter and the callback, the id drawn from tid_gen; a
\* thread calls execute when it is in no call, also after a call that raised
Begin(c, k, cmd, body) ==
    /\ pc[c] \in {"idle", "done", "raised"}
    /\ kind' = [kind EXCEPT ![c] = k]
    /\ req' = [req EXCEPT ![c] = [cmd |-> cmd, body |-> body]]
    /\ waiter' = [waiter EXCEPT ![c] = FALSE]
    /\ tid' = [tid EXCEPT ![c] = ExecTid(k # "sync", NextTid)]
    /\ tid_gen' = IF k # "sync" THEN (tid_gen + 1) % Len(TidCycle) ELSE tid_gen
    /\ nalloc' = IF k # "sync" THEN nalloc + 1 ELSE nalloc
    /\ ncalls' = ncalls + 1
    /\ cur' = [cur EXCEPT ![c] = ncalls + 1]
    /\ delivered' = [delivered EXCEPT ![c] = << >>]
    /\ ret' = [ret EXCEPT ![c] = None]
    /\ frame' = [frame EXCEPT ![c] = << >>]
    /\ pc' = [pc EXCEPT ![c] = IF k # "sync" THEN "register" ELSE "clear"]
    /\ UNCHANGED << callbacks, call_acknowledged, response_event, response,
                    reader_pc, message, cb_threads, owed, nsent, njunk, nset,
                    mark, svars, cvars >>

\* execute without line 51: the callback is not put into self.callbacks
RegisterSkipped(c) ==
    /\ pc[c] = "register"
    /\ pc' = [pc EXCEPT ![c] = "clear"]
    /\ UNCHANGED << callbacks, call_acknowledged, response_event, response,
                    tid_gen, reader_pc, message, kind, req, tid, frame, waiter,
                    ret, cur, cb_threads, owed, nsent, njunk, ncalls, nalloc,
                    delivered, nset, mark, svars, cvars >>

\* lines 48-51: self.callbacks[tid_word] = callback
Register(c) ==
    /\ pc[c] = "register"
    /\ callbacks' = Put(callbacks, TidWord(tid[c]), Callback(c, cur[c], kind[c]))
    /\ pc' = [pc EXCEPT ![c] = "clear"]
    /\ UNCHANGED << call_acknowledged, response_event, response, tid_gen,
                    reader_pc, message, kind, req, tid, frame, waiter, ret, cur,
                    cb_threads, owed, nsent, njunk, ncalls, nalloc, delivered, nset, mark, svars, cvars >>

\* lines 53-62: the frame is built, then self.response_event.clear()
Clear(c) ==
    /\ pc[c] = "clear"
    /\ LET f == ExecFrame(req[c].cmd, tid[c], req[c].body)
       IN  IF f.ok
           THEN /\ frame' = [frame EXCEPT ![c] = f.out]
                /\ response_event' = FALSE
                /\ mark' = [mark EXCEPT ![c] = nset]
                /\ pc' = [pc EXCEPT ![c] = "write"]
           ELSE /\ pc' = [pc EXCEPT ![c] = "raised"]
                /\ UNCHANGED << frame, response_event, mark >>
    /\ UNCHANGED << callbacks, call_acknowledged, response, tid_gen, reader_pc,
                    message, kind, req, tid, waiter, ret, cur, cb_threads, owed,
                    nsent, njunk, ncalls, nalloc, delivered, nset, svars, cvars >>

\* the frames the peer owes once it got a request of tag t: one synchronous
\* response, or a transaction's acknowledgment and completion
Owe(t) ==
    LET n == IF t = TidBase THEN 1 ELSE 2
    IN  Put(owed, t, IF t \in DOMAIN owed THEN owed[t] + n ELSE n)

\* the signal cleared once more after the request is written
WriteThenClear(c) ==
    /\ pc[c] = "write"
    /\ owed' = Owe(ParseMessage(frame[c]).txid)
    /\ response_event' = FALSE
    /\ pc' = [pc EXCEPT ![c] = "wait_event"]
    /\ UNCHANGED << callbacks, call_acknowledged, response, tid_gen, reader_pc,
                    message, kind, req, tid, frame, waiter, ret, cur, cb_threads,
                    nsent, njunk, ncalls, nalloc, delivered, nset, mark, svars, cvars >>

\* lines 63-65: os.write(self.fp, header + body)
Write(c) ==
    /\ pc[c] = "write"
    /\ owed' = Owe(ParseMessage(frame[c]).txid)
    /\ pc' = [pc EXCEPT ![c] = "wait_event"]
    /\ UNCHANGED << callbacks, call_acknowledged, response_event, response,
                    tid_gen, reader_pc, message, kind, req, tid, frame, waiter,
                    ret, cur, cb_threads, nsent, njunk, ncalls, nalloc, delivered, nset, mark, svars, cvars >>

\* where a caller goes on once self.response_event.wait() has returned
AfterWait(c) == IF kind[c] = "blocking" THEN "wait_waiter" ELSE "return"

\* line 66: self.response_event.wait() is entered.  Under the lock of the
\* event the flag is read: set, wait() returns at once; clear, the thread
\* blocks until a set() notifies it
WaitEvent(c) ==
    /\ pc[c] = "wait_event"
    /\ pc' = [pc EXCEPT ![c] = IF response_event THEN AfterWait(c) ELSE "event_blocked"]
    /\ UNCHANGED << callbacks, call_acknowledged, response_event, response,
                    tid_gen, reader_pc, message, kind, req, tid, frame, waiter,
                    ret, cur, cb_threads, owed, nsent, njunk, ncalls, nalloc, delivered, nset, mark, svars, cvars >>

\* line 66: a thread that a set() has notified returns from wait(),
\* whatever the flag has become since
WakeEvent(c) ==
    /\ pc[c] = "event_woken"
    /\ pc' = [pc EXCEPT ![c] = AfterWait(c)]
    /\ UNCHANGED << callbacks, call_acknowledged, response_event, response,
                    tid_gen, reader_pc, message, kind, req, tid, frame, waiter,
                    ret, cur, cb_threads, owed, nsent, njunk, ncalls, nalloc,
                    delivered, nset, mark, svars, cvars >>

\* lines 69-70: waiter.wait(); the waiter is never cleared, so that a
\* thread notified by its set() and a thread that finds it set go on alike
WaitWaiter(c) ==
    /\ pc[c] = "wait_waiter"
    /\ waiter[c]
    /\ pc' = [pc EXCEPT ![c] = "return"]
    /\ UNCHANGED << callbacks, call_acknowledged, response_event, response,
                    tid_gen, reader_pc, message, kind, req, tid, frame, waiter,
                    ret, cur, cb_threads, owed, nsent, njunk, ncalls, nalloc, delivered, nset, mark, svars, cvars >>

\* line 72: return self.response
Return(c) ==
    /\ pc[c] = "return"
    /\ ret' = [ret EXCEPT ![c] = response]
    /\ pc' = [pc EXCEPT ![c] = "done"]
    /\ UNCHANGED << callbacks, call_acknowledged, response_event, response,
                    tid_gen, reader_pc, message, kind, req, tid, frame, waiter,
                    cur, cb_threads, owed, nsent, njunk, ncalls, nalloc, delivered, nset, mark, svars, cvars >>

\* ------------------------------------------------------------------------
\* reader and handle_message, on the reader thread
\* ------------------------------------------------------------------------

\* the frames owed with one frame of tag t sent
Sent(t) == IF owed[t] = 1 THEN Pop(owed, t) ELSE Put(owed, t, owed[t] - 1)

\* line 117: the guard of the reader's loop; the thread ends once
\* self._stop is set, else it blocks in os.read
LoopGuard ==
    /\ reader_pc = "loop"
    /\ reader_pc' = IF stop THEN "stopped" ELSE "read"
    /\ UNCHANGED << callbacks, call_acknowledged, response_event, response,
                    tid_gen, message, pc, kind, req, tid, frame, waiter, ret,
                    cur, cb_threads, owed, nsent, njunk, ncalls, nalloc,
                    delivered, nset, mark, svars, cvars >>

\* lines 118 and 75-87: os.read returns a frame the peer owes a request,
\* and handle_message slices and unpacks it
ReadAnswer(t) ==
    /\ reader_pc = "read"
    /\ t \in DOMAIN owed
    /\ message' = ParseMessage(AnswerFrame(t, Answer(nsent + 1)))
    /\ nsent' = nsent + 1
    /\ owed' = Sent(t)
    /\ reader_pc' = "handle"
    /\ UNCHANGED << callbacks, call_acknowledged, response_event, response,
                    tid_gen, pc, kind, req, tid, frame, waiter, ret, cur,
                    cb_threads, njunk, ncalls, nalloc, delivered, nset, mark, svars, cvars >>

\* lines 118 and 75-87: os.read returns a chunk that answers no request
ReadJunk(chunk) ==
    /\ reader_pc = "read"
    /\ message' = ParseMessage(chunk)
    /\ njunk' = njunk + 1
    /\ reader_pc' = "handle"
    /\ UNCHANGED << callbacks, call_acknowledged, response_event, response,
                    tid_gen, pc, kind, req, tid, frame, waiter, ret, cur,
                    cb_threads, owed, nsent, ncalls, nalloc, delivered, nset, mark, svars, cvars >>

\* self.response_event.set() notifies every thread blocked in wait()
NotifyAll == [c \in Callers |-> IF pc[c] = "event_blocked" THEN "event_woken" ELSE pc[c]]

\* what the reader leaves alone in a step that sets the signal
SetterKeeps ==
    UNCHANGED << tid_gen, message, kind, req, tid, frame, waiter, ret, cur,
                 mark, owed, nsent, njunk, ncalls, nalloc, svars, cvars >>

\* what the reader leaves alone in every step but the ones named
ReaderKeeps ==
    UNCHANGED << tid_gen, message, pc, kind, req, tid, frame, waiter, ret, cur,
                 mark, owed, nsent, njunk, ncalls, nalloc, svars, cvars >>

\* lines 81-87 raised (an assertion, struct.error): the exception ends the
\* reader thread
HandleFail ==
    /\ reader_pc = "handle"
    /\ ~message.ok
    /\ reader_pc' = "dead"
    /\ ReaderKeeps
    /\ UNCHANGED << callbacks, call_acknowledged, response_event, response,
                    cb_threads, delivered, nset >>

\* lines 92-93: txid == 0, an unsolicited message
HandleUnsolicited ==
    /\ reader_pc = "handle"
    /\ message.ok
    /\ message.txid = 0
    /\ reader_pc' = "loop"
    /\ ReaderKeeps
    /\ UNCHANGED << callbacks, call_acknowledged, response_event, response,
                    cb_threads, delivered, nset >>

\* lines 94-96: txid == 0x11000100, self.response_event.set()
HandleSync ==
    /\ reader_pc = "handle"
    /\ message.ok
    /\ message.txid = TidBase
    /\ response_event' = TRUE
    /\ pc' = NotifyAll
    /\ nset' = nset + 1
    /\ reader_pc' = "sync_store"
    /\ SetterKeeps
    /\ UNCHANGED << callbacks, call_acknowledged, response, cb_threads, delivered >>

\* line 97: self.response = (code, body)
SyncStore ==
    /\ reader_pc = "sync_store"
    /\ response' = Pair(message.code, message.body)
    /\ reader_pc' = "loop"
    /\ ReaderKeeps
    /\ UNCHANGED << callbacks, call_acknowledged, response_event, cb_threads,
                    delivered, nset >>

\* a frame of an unknown txid taken for a response: stored, the signal set
HandleUnknownStored ==
    /\ reader_pc = "handle"
    /\ message.ok
    /\ message.txid \notin {0, TidBase}
    /\ message.txid \notin DOMAIN callbacks
    /\ response' = << message.code, message.body >>
    /\ response_event' = TRUE
    /\ pc' = NotifyAll
    /\ reader_pc' = "loop"
    /\ UNCHANGED << tid_gen, message, kind, req, tid, frame, waiter, ret, cur,
                    mark, owed, nsent, njunk, ncalls, nalloc, svars, cvars >>
    /\ UNCHANGED << callbacks, call_acknowledged, cb_threads, delivered, nset >>

\* lines 98-101: a txid that is not in self.callbacks
HandleUnknown ==
    /\ reader_pc = "handle"
    /\ message.ok
    /\ message.txid \notin {0, TidBase}
    /\ message.txid \notin DOMAIN callbacks
    /\ reader_pc' = "loop"
    /\ ReaderKeeps
    /\ UNCHANGED << callbacks, call_acknowledged, response_event, response,
                    cb_threads, delivered, nset >>

\* lines 103-105: a txid of self.callbacks not yet acknowledged
HandleAck ==
    /\ reader_pc = "handle"
    /\ message.ok
    /\ message.txid \notin {0, TidBase}
    /\ message.txid \in DOMAIN callbacks
    /\ message.txid \notin call_acknowledged
    /\ call_acknowledged' = call_acknowledged \cup {message.txid}
    /\ reader_pc' = "ack_store"
    /\ ReaderKeeps
    /\ UNCHANGED << callbacks, response_event, response, cb_threads, delivered, nset >>

\* line 106: self.response = (code, body)
AckStore ==
    /\ reader_pc = "ack_store"
    /\ response' = Pair(message.code, message.body)
    /\ reader_pc' = "ack_set"
    /\ ReaderKeeps
    /\ UNCHANGED << callbacks, call_acknowledged, response_event, cb_threads,
                    delivered, nset >>

\* an acknowledgment that does not set the signal: line 107 left out
AckSetSkipped ==
    /\ reader_pc = "ack_set"
    /\ reader_pc' = "loop"
    /\ ReaderKeeps
    /\ UNCHANGED << callbacks, call_acknowledged, response, response_event,
                    cb_threads, delivered, nset >>

\* line 107: self.response_event.set()
AckSet ==
    /\ reader_pc = "ack_set"
    /\ response_event' = TRUE
    /\ pc' = NotifyAll
    /\ nset' = nset + 1
    /\ reader_pc' = "loop"
    /\ SetterKeeps
    /\ UNCHANGED << callbacks, call_acknowledged, response, cb_threads, delivered >>

\* a completion that leaves the txid in self.call_acknowledged: line 110
\* left out
HandleCompleteKeepsMark ==
    /\ reader_pc = "handle"
    /\ message.ok
    /\ message.txid \notin {0, TidBase}
    /\ message.txid \in DOMAIN callbacks
    /\ message.txid \in call_acknowledged
    /\ reader_pc' = "spawn"
    /\ ReaderKeeps
    /\ UNCHANGED << callbacks, call_acknowledged, response_event, response,
                    cb_threads, delivered, nset >>

\* lines 108-110: a txid of self.callbacks already acknowledged
HandleComplete ==
    /\ reader_pc = "handle"
    /\ message.ok
    /\ message.txid \notin {0, TidBase}
    /\ message.txid \in DOMAIN callbacks
    /\ message.txid \in call_acknowledged
    /\ call_acknowledged' = call_acknowledged \ {message.txid}
    /\ reader_pc' = "spawn"
    /\ ReaderKeeps
    /\ UNCHANGED << callbacks, response_event, response, cb_threads, delivered, nset >>

\* the args of a callback thread handed the body whole
CallbackArgsWhole(code, body) == Pair(code, body)

\* the args of the callback thread: (code, body[6:])
CallbackArgs(code, body) == Pair(code, PyTail(body, 6))

\* the thread of line 112 for the frame in message
CallbackThread ==
    [cb   |-> callbacks[message.txid],
     args |-> CallbackArgs(message.code, message.body),
     pc   |-> "run"]

\* lines 112-113: the callback thread is created and started
Spawn ==
    /\ reader_pc = "spawn"
    /\ cb_threads' = cb_threads \cup {CallbackThread}
    /\ delivered' =
         LET cb == CallbackThread.cb
         IN  IF cur[cb.owner] = cb.call
             THEN [delivered EXCEPT ![cb.owner] = Append(@, CallbackThread.args)]
             ELSE delivered
    /\ reader_pc' = "pop"
    /\ ReaderKeeps
    /\ UNCHANGED << callbacks, call_acknowledged, response_event, response, nset >>

\* the pop held back until the callback threads have returned, as after a
\* cb_thread.join()
PopCallJoined ==
    /\ reader_pc = "pop"
    /\ cb_threads = {}
    /\ callbacks' = Pop(callbacks, message.txid)
    /\ reader_pc' = "loop"
    /\ ReaderKeeps
    /\ UNCHANGED << call_acknowledged, response_event, response, cb_threads,
                    delivered, nset >>

\* line 114: self.callbacks.pop(txid)
PopCall ==
    /\ reader_pc = "pop"
    /\ callbacks' = Pop(callbacks, message.txid)
    /\ reader_pc' = "loop"
    /\ ReaderKeeps
    /\ UNCHANGED << call_acknowledged, response_event, response, cb_threads,
                    delivered, nset >>

\* ------------------------------------------------------------------------
\* the callbacks, each on a thread of its own
\* ------------------------------------------------------------------------

CbKeeps ==
    UNCHANGED << callbacks, call_acknowledged, response_event, tid_gen,
                 reader_pc, message, pc, kind, req, tid, frame, ret, cur, owed,
                 nsent, njunk, ncalls, nalloc, delivered, nset, mark, svars, cvars >>

\* a callback the caller passed runs and returns
CbUser(t) ==
    /\ t \in cb_threads
    /\ ~t.cb.blocking
    /\ cb_threads' = cb_threads \ {t}
    /\ CbKeeps
    /\ UNCHANGED << response, waiter >>

\* line 38, in the callback of a blocking call: self.response = code, body
CbStore(t) ==
    /\ t \in cb_threads
    /\ t.cb.blocking
    /\ t.pc = "run"
    /\ response' = t.args
    /\ cb_threads' = (cb_threads \ {t}) \cup {[t EXCEPT !.pc = "set"]}
    /\ CbKeeps
    /\ UNCHANGED waiter

\* line 39, in the callback of a blocking call: waiter.set(), on the
\* Event of the call that made the callback
CbSet(t) ==
    /\ t \in cb_threads
    /\ t.cb.blocking
    /\ t.pc = "set"
    /\ waiter' = IF cur[t.cb.owner] = t.cb.call
                 THEN [waiter EXCEPT ![t.cb.owner] = TRUE]
                 ELSE waiter
    /\ cb_threads' = cb_threads \ {t}
    /\ CbKeeps
    /\ UNCHANGED response

\* ------------------------------------------------------------------------
\* stop and __del__
\* ------------------------------------------------------------------------

\* every thread of the process ended by a signal
Killed ==
    /\ reader_pc' = "killed"
    /\ pc' = [c \in Callers |-> "killed"]
    /\ cb_threads' = {[th EXCEPT !.pc = "killed"] : th \in cb_threads}

\* line 122: stop() sets self._stop
Stop ==
    /\ stop_pc = "idle"
    /\ stop' = TRUE
    /\ stop_pc' = "kill"
    /\ UNCHANGED << callbacks, call_acknowledged, response_event, response,
                    tid_gen, reader_pc, message, pc, kind, req, tid, frame,
                    waiter, ret, cur, cb_threads, owed, nsent, njunk, ncalls,
                    nalloc, delivered, nset, mark, cvars >>

\* line 124: stop() sends SIGALRM to the process.  rpc.py installs no
\* handler: the signal ends the process, unless the program that uses
\* XMMRPC has installed one (handled), and then no thread is disturbed: the
\* handler runs on the main thread and os.read is taken up again
Kill(handled) ==
    /\ stop_pc = "kill"
    /\ IF handled
       THEN stop_pc' = "idle" /\ UNCHANGED << reader_pc, pc, cb_threads >>
       ELSE stop_pc' = "killed" /\ Killed
    /\ UNCHANGED << callbacks, call_acknowledged, response_event, response,
                    tid_gen, stop, message, kind, req, tid, frame, waiter, ret,
                    cur, owed, nsent, njunk, ncalls, nalloc, delivered, nset,
                    mark, cvars >>

\* lines 30-32: __del__, run when nothing refers to the object any more:
\* the reader thread has ended, no thread is inside execute or stop, no
\* callback thread runs the closure of a blocking call.  It calls stop()
\* and closes the device; no call can be made on the object afterwards
Del(handled) ==
    /\ reader_pc \in {"stopped", "dead"}
    /\ stop_pc = "idle"
    /\ \A c \in Callers : pc[c] \in {"idle", "done", "raised"}
    /\ \A th \in cb_threads : ~th.cb.blocking
    /\ stop' = TRUE
    /\ IF handled
       THEN /\ stop_pc' = "closed"
            /\ pc' = [c \in Callers |-> "closed"]
            /\ UNCHANGED << reader_pc, cb_threads >>
       ELSE stop_pc' = "killed" /\ Killed
    /\ UNCHANGED << callbacks, call_acknowledged, response_event, response,
                    tid_gen, message, kind, req, tid, frame, waiter, ret,
                    cur, owed, nsent, njunk, ncalls, nalloc, delivered, nset,
                    mark, cvars >>

\* ------------------------------------------------------------------------
\* Specifications
\* ------------------------------------------------------------------------

Kinds == {"sync", "cb", "blocking"}

\* the steps of a caller thread inside execute
Execute(c) ==
    \/ Register(c)
    \/ Clear(c)
    \/ Write(c)
    \/ WaitEvent(c)
    \/ WakeEvent(c)
    \/ WaitWaiter(c)
    \/ Return(c)

\* the steps of handle_message on a frame that answers a request: lines
\* 94-97 for a call without an id, lines 103-114 for a registered id
HandleAnswer ==
    \/ HandleSync
    \/ SyncStore
    \/ HandleAck
    \/ AckStore
    \/ AckSet
    \/ HandleComplete
    \/ Spawn
    \/ PopCall

\* the steps of handle_message on a frame of a registered id: lines 103-114
HandleRegistered ==
    \/ HandleAck
    \/ AckStore
    \/ AckSet
    \/ HandleComplete
    \/ Spawn
    \/ PopCall

\* the steps of handle_message on a frame that bears an id: lines 98-114
HandleTransaction ==
    \/ HandleUnknown
    \/ HandleRegistered

\* the steps of handle_message
HandleMessage ==
    \/ HandleFail
    \/ HandleUnsolicited
    \/ HandleUnknown
    \/ HandleAnswer

\* the steps of the callback threads
Callbacks ==
    \E t \in cb_threads : CbUser(t) \/ CbStore(t) \/ CbSet(t)

\* callers on NumCallers threads, at most MaxCalls calls, the peer
\* answering every request and sending at most MaxJunk other chunks
Next ==
    \/ \E c \in Callers, k \in Kinds, cmd \in Cmds, body \in ReqBodies :
         ncalls < MaxCalls /\ Begin(c, k, cmd, body)
    \/ \E c \in Callers : Execute(c)
    \/ LoopGuard
    \/ \E t \in DOMAIN owed : ReadAnswer(t)
    \/ \E chunk \in JunkChunks : njunk < MaxJunk /\ ReadJunk(chunk)
    \/ HandleMessage
    \/ Callbacks

Spec == Init /\ [][Next]_vars

\* one caller thread making up to MaxOneCalls calls, each begun as soon as
\* the one before has returned, so that transactions overlap; the peer
\* answers every request and sends at most MaxOneJunk other chunks; stop()
\* is not called
NextOne ==
    \/ \E k \in Kinds, cmd \in Cmds, body \in ReqBodies :
         ncalls < MaxOneCalls /\ Begin(1, k, cmd, body)
    \/ Execute(1)
    \/ LoopGuard
    \/ \E t \in DOMAIN owed : ReadAnswer(t)
    \/ \E chunk \in JunkChunks : njunk < MaxOneJunk /\ ReadJunk(chunk)
    \/ HandleMessage
    \/ Callbacks

SpecOne == Init /\ [][NextOne]_vars

\* the same caller and peer, and a thread that calls stop() at any moment,
\* any number of times; the object is deleted once nothing refers to it
NextStop ==
    \/ \E k \in Kinds, cmd \in Cmds, body \in ReqBodies :
         ncalls < MaxOneCalls /\ Begin(1, k, cmd, body)
    \/ Execute(1)
    \/ LoopGuard
    \/ \E t \in DOMAIN owed : ReadAnswer(t)
    \/ \E chunk \in JunkChunks : njunk < MaxOneJunk /\ ReadJunk(chunk)
    \/ HandleMessage
    \/ Callbacks
    \/ Stop
    \/ \E handled \in BOOLEAN : Kill(handled)
    \/ \E handled \in BOOLEAN : Del(handled)

SpecStop == Init /\ [][NextStop]_vars

\* nothing of an earlier call is left to happen: the peer owes no frame,
\* the reader waits in os.read, no callback thread runs
Quiescent == owed = EmptyMap /\ reader_pc \in {"loop", "read"} /\ cb_threads = {}

\* one caller thread making up to MaxSeqCalls calls, at most MaxSeqSync of
\* them without an id, each call begun when the one before is through; the
\* peer answers every request and sends nothing else
NextSeq ==
    \/ \E k \in Kinds, cmd \in SeqCmds, body \in SeqReqBodies :
         /\ ncalls < MaxSeqCalls
         /\ k = "sync" => ncalls - nalloc < MaxSeqSync
         /\ Quiescent
         /\ Begin(1, k, cmd, body)
    \/ Execute(1)
    \/ LoopGuard
    \/ \E t \in DOMAIN owed : ReadAnswer(t)
    \/ HandleAnswer
    \/ Callbacks

SpecSeq == Init /\ [][NextSeq]_vars

\* nothing of an earlier call is left to happen but, at most, the last
\* frame the peer owes the transaction of id 1
Settled ==
    /\ reader_pc \in {"loop", "read"}
    /\ cb_threads = {}
    /\ DOMAIN owed \subseteq {TidBase + 1}
    /\ \A t \in DOMAIN owed : owed[t] = 1

\* one caller thread making up to MaxWrapCalls calls, all with an id, each
\* begun when the one before is through; the peer answers every request,
\* and may be slow to complete the transaction of id 1
NextWrap ==
    \/ \E k \in {"cb", "blocking"}, cmd \in Cmds, body \in ReqBodies :
         /\ ncalls < MaxWrapCalls
         /\ Settled
         /\ Begin(1, k, cmd, body)
    \/ Execute(1)
    \/ LoopGuard
    \/ \E t \in DOMAIN owed : ReadAnswer(t)
    \/ HandleTransaction
    \/ Callbacks

SpecWrap == Init /\ [][NextWrap]_vars

\* blocking calls on NumCallers threads, at most MaxFairCalls of them; the
\* peer answers every request and sends nothing else
NextFair ==
    \/ \E c \in Callers, cmd \in Cmds, body \in ReqBodies :
         ncalls < MaxFairCalls /\ Begin(c, "blocking", cmd, body)
    \/ \E c \in Callers : Execute(c)
    \/ LoopGuard
    \/ \E t \in DOMAIN owed : ReadAnswer(t)
    \/ HandleRegistered
    \/ Callbacks

\* every thread that can run does run in the end: each caller inside
\* execute, the reader in os.read (the peer's frames arrive) and in
\* handle_message, the callback threads
SpecFair ==
    /\ Init
    /\ [][NextFair]_vars
    /\ \A c \in Callers : WF_vars(Execute(c))
    /\ WF_vars(LoopGuard)
    /\ WF_vars(\E t \in DOMAIN owed : ReadAnswer(t))
    /\ WF_vars(HandleRegistered)
    /\ WF_vars(Callbacks)

\* one caller thread making up to MaxLiveCalls calls; the peer answers
\* every request and sends at most MaxLiveJunk other chunks
NextLive ==
    \/ \E k \in Kinds, cmd \in Cmds, body \in ReqBodies :
         ncalls < MaxLiveCalls /\ Begin(1, k, cmd, body)
    \/ Execute(1)
    \/ LoopGuard
    \/ \E t \in DOMAIN owed : ReadAnswer(t)
    \/ \E chunk \in JunkChunks : njunk < MaxLiveJunk /\ ReadJunk(chunk)
    \/ HandleMessage
    \/ Callbacks

\* the caller thread runs whenever it can; nothing is asked of the peer,
\* the reader or the callback threads
SpecLive ==
    /\ Init
    /\ [][NextLive]_vars
    /\ WF_vars(Execute(1))

\* ------------------------------------------------------------------------
\* The codec on its own: pack and unpack applied to drawn inputs
\* ------------------------------------------------------------------------

\* the byte string of length n the fields are filled with
Fill(n) == [i \in 1..n |-> (7 * i + 3) % 256]

\* the decimal digits of n, as format characters
RECURSIVE Decimal(_)
Decimal(n) ==
    LET d == << CASE n % 10 = 0 -> "0" [] n % 10 = 1 -> "1" [] n % 10 = 2 -> "2"
                  [] n % 10 = 3 -> "3" [] n % 10 = 4 -> "4" [] n % 10 = 5 -> "5"
                  [] n % 10 = 6 -> "6" [] n % 10 = 7 -> "7" [] n % 10 = 8 -> "8"
                  [] n % 10 = 9 -> "9" >>
    IN  IF n < 10 THEN d ELSE Decimal(n \div 10) \o d

\* the fields drawn: scalars at the ends and inside of their widths, byte
\* strings below, at and above the occupied counts 128 and 256
ScalarFields ==
    { [fmt |-> << "B" >>, arg |-> v] : v \in {0, 255} }
    \cup { [fmt |-> << "H" >>, arg |-> v] : v \in {0, 258, 65535} }
    \cup { [fmt |-> << "L" >>, arg |-> v] : v \in {0, 16909060, 2147483647} }

StringFields ==
    { [fmt |-> << "s" >> \o Decimal(4), arg |-> Fill(n)] : n \in {0, 3, 4} }
    \cup { [fmt |-> << "s" >> \o Decimal(MaxCap), arg |-> Fill(n)] :
             n \in {0, 127, 128, 130, 255, 256, 257, 258, MaxCap} }

Fields == ScalarFields \cup StringFields

\* the lists of 1 to MaxFields fields
FieldLists == UNION { [1..n -> Fields] : n \in 1..MaxFields }

\* the format and the values of a list of fields
RECURSIVE FormatOf(_)
FormatOf(fs) == IF Len(fs) = 0 THEN << >> ELSE Head(fs).fmt \o FormatOf(Tail(fs))
ArgsOf(fs) == [i \in 1..Len(fs) |-> fs[i].arg]

\* the format that decodes what fmt encodes: n for a scalar, s for a string
RECURSIVE DecodeFormat(_)
DecodeFormat(fmt) ==
    IF Len(fmt) = 0 THEN << >>
    ELSE (CASE Head(fmt) \in {"B", "H", "L"} -> << "n" >>
            [] Head(fmt) = "s" -> << "s" >>
            [] OTHER -> << >>) \o DecodeFormat(Tail(fmt))

\* where the buffers are cut: near both ends, and at every 32nd byte
Cuts(n) == { k \in 0..(n - 1) : k < 12 \/ k > n - 4 \/ k % 32 = 0 }

InitCodec ==
    /\ InitDispatcher
    /\ codec_pc = "start"
    /\ \E fs \in FieldLists : p_fmt = FormatOf(fs) /\ p_args = ArgsOf(fs)
    /\ p_ret = Failed
    /\ u_fmt = << >>
    /\ u_data = << >>
    /\ u_ret = Failed

\* pack(p_fmt, *p_args)
CallPack ==
    /\ codec_pc = "start"
    /\ p_ret' = pack(p_fmt, p_args)
    /\ codec_pc' = "packed"
    /\ UNCHANGED << p_fmt, p_args, u_fmt, u_data, u_ret >>
    /\ UNCHANGED dvars

\* unpack(fmt, data)
CallUnpack(fmt, data) ==
    /\ codec_pc = "packed"
    /\ u_fmt' = fmt
    /\ u_data' = data
    /\ u_ret' = unpack(fmt, data)
    /\ codec_pc' = "unpacked"
    /\ UNCHANGED << p_fmt, p_args, p_ret >>
    /\ UNCHANGED dvars

\* what pack returned is decoded: whole, cut short, or with the first
\* byte of an array field replaced by a tag unpack does not know
NextCodec ==
    \/ CallPack
    \/ p_ret.ok /\ CallUnpack(DecodeFormat(p_fmt), p_ret.out)
    \/ \E k \in Cuts(Len(p_ret.out)) :
         p_ret.ok /\ CallUnpack(DecodeFormat(p_fmt), PySlice(p_ret.out, 0, k))
    \/ /\ p_ret.ok
       /\ Head(p_fmt) = "s"
       /\ CallUnpack(DecodeFormat(p_fmt), << 84 >> \o Tail(p_ret.out))

SpecCodec == InitCodec /\ [][NextCodec]_vars

\* ------------------------------------------------------------------------
\* The dispatcher: properties
\* ------------------------------------------------------------------------

\* C1: a call without an id returns the (code, body) of the frame tagged
\* 0x11000100. When one call has been made and the reader has read nothing
\* but the peer's answer to it, what the call returned is the code and body
\* of that answer.
C1_SyncReturnsItsResponse ==
    \A c \in Callers :
        (pc[c] = "done" /\ kind[c] = "sync" /\ ncalls = 1 /\ njunk = 0)
        => LET m == ParseMessage(AnswerFrame(TidBase, Answer(1)))
           IN  ret[c] = << m.code, m.body >>

\* C2: the first frame of a registered id marks the id acknowledged, starts
\* no callback and leaves the entry of self.callbacks; the second starts
\* the callback once, on (code, body without its first 6 bytes), and leaves
\* the id neither in self.callbacks nor in self.call_acknowledged.
\* As steps of handle_message on the frame the reader holds ...
C2_FrameSteps ==
    LET t == message.txid
        registered == message.ok /\ t \notin {0, TidBase} /\ t \in DOMAIN callbacks
    IN  /\ (reader_pc = "handle" /\ registered /\ t \notin call_acknowledged
              /\ reader_pc' # "handle")
           => /\ reader_pc' = "ack_store"
              /\ call_acknowledged' = call_acknowledged \cup {t}
              /\ UNCHANGED << callbacks, cb_threads, delivered >>
        /\ (reader_pc \in {"ack_store", "ack_set"} /\ reader_pc' # reader_pc)
           => /\ reader_pc' = (IF reader_pc = "ack_store" THEN "ack_set" ELSE "loop")
              /\ t \in call_acknowledged'
              /\ t \in DOMAIN callbacks' /\ callbacks'[t] = callbacks[t]
              /\ cb_threads' \subseteq cb_threads
              /\ UNCHANGED delivered
        /\ (reader_pc = "handle" /\ registered /\ t \in call_acknowledged
              /\ reader_pc' # "handle")
           => /\ reader_pc' = "spawn"
              /\ call_acknowledged' = call_acknowledged \ {t}
              /\ UNCHANGED << callbacks, cb_threads, delivered >>
        /\ (reader_pc = "spawn" /\ reader_pc' # "spawn")
           => /\ reader_pc' = "pop"
              /\ cb_threads' =
                   cb_threads \cup
                     {[cb   |-> callbacks[t],
                       args |-> << message.code,
                                   SubSeq(message.body, 7, Len(message.body)) >>,
                       pc   |-> "run"]}
              /\ UNCHANGED << callbacks, call_acknowledged >>
        /\ (reader_pc = "pop" /\ reader_pc' # "pop")
           => /\ reader_pc' = "loop"
              /\ t \notin DOMAIN callbacks'
              /\ t \notin call_acknowledged'
              /\ cb_threads' \subseteq cb_threads
        /\ (reader_pc # "spawn" \/ reader_pc' = reader_pc)
           => /\ {<< x.cb, x.args >> : x \in cb_threads'}
                   \subseteq {<< x.cb, x.args >> : x \in cb_threads}
              /\ \A c \in Callers : Len(delivered'[c]) <= Len(delivered[c])

\* ... and as the course of one call whose id no other frame bears: with
\* both answers owed nothing has happened; once the first is handled the
\* id is acknowledged, its callback still registered and not started; once
\* the second is handled the callback has been started exactly once, on the
\* code and the payload of an answer, and the id is gone from both.
C2_CallCourse ==
    \A c \in Callers :
        (kind[c] # "sync" /\ njunk = 0
           /\ pc[c] \in {"wait_event", "event_blocked", "event_woken", "wait_waiter", "return", "done"})
        => LET t       == TidWord(tid[c])
               rem     == IF t \in DOMAIN owed THEN owed[t] ELSE 0
               handled == reader_pc \in {"loop", "read"} \/ message.txid # t
           IN  /\ rem = 2
                  => /\ t \in DOMAIN callbacks /\ t \notin call_acknowledged
                     /\ delivered[c] = << >>
               /\ (rem = 1 /\ handled)
                  => /\ t \in call_acknowledged
                     /\ t \in DOMAIN callbacks
                     /\ callbacks[t] = Callback(c, cur[c], kind[c])
                     /\ delivered[c] = << >>
               /\ (rem = 0 /\ handled)
                  => /\ t \notin call_acknowledged
                     /\ t \notin DOMAIN callbacks
                     /\ Len(delivered[c]) = 1
                     /\ \E n \in 2..nsent :
                          delivered[c][1] = << Answer(n).code, << Answer(n).p >> >>

C2_TwoFrameLifecycle == []C2_CallCourse /\ [][C2_FrameSteps]_vars

\* a call with a callback whose two answers have been handled: the callback
\* was started once and the id has left both collections
C2_Witness ==
    \E c \in Callers :
        /\ kind[c] = "cb" /\ pc[c] = "done" /\ njunk = 0
        /\ reader_pc \in {"loop", "read"} /\ message.txid = TidWord(tid[c])
        /\ TidWord(tid[c]) \notin DOMAIN owed
        /\ Len(delivered[c]) = 1
        /\ TidWord(tid[c]) \notin DOMAIN callbacks

\* C3: a call with a callback returns without waiting for any inbound
\* frame: inside execute its thread can always take its next step, and is
\* never blocked in the wait of line 66.
C3_NeverWaits ==
    \A c \in Callers :
        (kind[c] = "cb" /\ pc[c] \in {"register", "clear", "write", "wait_event", "event_blocked",
                                     "event_woken", "return"})
        => ENABLED Execute(c)

\* C4: a blocking call returns the (code, stripped body) its own completion
\* frame delivered to its callback. When every call made is a blocking call
\* and the reader has read nothing but the peer's answers, what a call
\* returned is what its callback was started with.
C4_BlockingReturnsItsCompletion ==
    (njunk = 0 /\ \A c \in Callers : cur[c] # 0 => kind[c] = "blocking")
    => \A c \in Callers :
           (pc[c] = "done" /\ Cardinality({d \in Callers : cur[d] # 0}) = ncalls)
           => /\ Len(delivered[c]) = 1
              /\ ret[c] = delivered[c][1]

\* C5: a frame of txid 0, and a frame whose txid is neither 0x11000100 nor
\* registered in self.callbacks, is dropped: handling it changes neither
\* self.callbacks nor self.call_acknowledged nor self.response nor the
\* response signal, and starts no callback.
C5_DroppedFramesChangeNothing ==
    [][ (/\ reader_pc = "handle" /\ message.ok
         /\ \/ message.txid = 0
            \/ message.txid # TidBase /\ message.txid \notin DOMAIN callbacks
         /\ reader_pc' # "handle")
        => /\ reader_pc' = "loop"
           /\ UNCHANGED << callbacks, call_acknowledged, response, response_event,
                           nset, cb_threads, delivered, waiter >> ]_vars

\* a third frame of id 1 has been handled after the call of id 1 was
\* completed
C5_Witness ==
    /\ reader_pc \in {"loop", "read"} /\ message.ok /\ message.code = 80
    /\ message.txid = TidBase + 1
    /\ njunk = 1 /\ nsent = 2 /\ ncalls = 1 /\ owed = EmptyMap
    /\ callbacks = EmptyMap /\ call_acknowledged = {}
    /\ \E c \in Callers : kind[c] = "cb" /\ tid[c] = TidBase + 1 /\ Len(delivered[c]) = 1

\* C6: the n-th id drawn is ((n - 1) mod 255) + 1, never 0; the tag of a
\* call with an id, on the wire and in self.callbacks, is 0x11000100 plus
\* the id; a call without an id carries the tag 0x11000100 and adds no
\* entry to self.callbacks. (One caller, each call begun when the one
\* before is through: the call in hand is the latest.)
C6_IdAllocation ==
    \A c \in Callers :
        cur[c] # 0
        => LET id   == ((nalloc - 1) % 255) + 1
               sent == pc[c] \in {"write", "wait_event", "event_blocked", "event_woken", "wait_waiter", "return", "done"}
           IN  /\ kind[c] # "sync"
                  => /\ id \in 1..255
                     /\ tid[c] = TidBase + id
                     /\ sent => ParseMessage(frame[c]).txid = TidBase + id
                     /\ DOMAIN callbacks \subseteq {TidBase + id}
                     /\ pc[c] \in {"clear", "write"} => DOMAIN callbacks = {TidBase + id}
               /\ kind[c] = "sync"
                  => /\ tid[c] = 0
                     /\ sent => ParseMessage(frame[c]).txid = TidBase
                     /\ callbacks = EmptyMap

\* the 256th id drawn is 1 again
C6_Witness ==
    /\ nalloc = 256 /\ kind[1] = "cb" /\ pc[1] = "done"
    /\ tid[1] = TidBase + 1
    /\ ParseMessage(frame[1]).txid = TidBase + 1

\* C7: an outbound frame is total_length + 4 bytes long, total_length being
\* len(body) + 16, plus 6 when the call has an id; its first four bytes,
\* least significant first, and the integer after the 02 04 that follows,
\* most significant first, both hold total_length, and handle_message reads
\* the two as equal.
C7_OutboundLengths ==
    \A c \in Callers :
        frame[c] # << >>
        => LET f     == frame[c]
               total == Len(req[c].body) + 16 + (IF kind[c] = "sync" THEN 0 ELSE 6)
               m     == ParseMessage(f)
           IN  /\ Len(f) = total + 4
               /\ f[1] + 256 * f[2] + 65536 * f[3] + 16777216 * f[4] = total
               /\ f[5] = 2 /\ f[6] = 4
               /\ 16777216 * f[7] + 65536 * f[8] + 256 * f[9] + f[10] = total
               /\ m.ok /\ m.l0 = total /\ m.l1 = total /\ ~m.mismatch

\* frames with and without an id have been written
C7_Witness ==
    /\ pc[1] = "done" /\ kind[1] = "cb" /\ req[1].body = << 1, 2, 3 >>
    /\ Len(frame[1]) = 29
    /\ ncalls - nalloc = 1

\* C11: an entry of self.callbacks stays, bound to the callback of the call
\* that registered it, until the reader's completion handling pops it: no
\* step other than the pop of line 114 on that tag replaces or removes it.
C11_EntriesStay ==
    [][ \A t \in DOMAIN callbacks :
          \/ t \in DOMAIN callbacks' /\ callbacks'[t] = callbacks[t]
          \/ reader_pc = "pop" /\ reader_pc' = "loop" /\ message.txid = t ]_vars


\* C12: with one call without an id outstanding, that call is woken by and
\* returns the response tagged 0x11000100, whatever calls with callbacks
\* other threads have in flight. When every thread has made at most one
\* call, one of them without an id and the others with a callback of their
\* own, and the reader has read nothing but the peer's answers: the call
\* without an id is past line 66 only when its response has been read, and
\* what it returned is no acknowledgment (a body that repeats the tag).
C12_SyncNotWokenByAsync ==
    \A c \in Callers :
        (/\ kind[c] = "sync" /\ cur[c] # 0 /\ njunk = 0
         /\ Cardinality({d \in Callers : cur[d] # 0}) = ncalls
         /\ \A d \in Callers \ {c} : cur[d] # 0 => kind[d] = "cb")
        => /\ pc[c] \in {"return", "done"} => TidBase \notin DOMAIN owed
           /\ (pc[c] = "done" /\ ret[c] # None) => Len(ret[c][2]) = 1

\* C13: a chunk whose handling fails (no 02 04 prefix, too short for a
\* header) is dropped and the reader goes on: the reader thread never ends.
C13_ReaderSurvives == reader_pc # "dead"

\* C14: self.callbacks and self.response are written only by the reader:
\* every step that changes one of them is a step of the reader thread.
C14_ReaderIsTheOnlyWriter ==
    [][ (callbacks' # callbacks \/ response' # response)
        => reader_pc' # reader_pc ]_vars

\* C15: the callback runs on a thread of its own and the reader never
\* waits for it: once a completion frame has started the callback, the
\* reader can pop the entry, go back to os.read (self._stop not being
\* set) and handle the next chunk,
\* whatever callback threads have not returned; its steps other than the
\* start of a thread leave the callback threads alone.
C15_ReaderCanStep ==
    /\ reader_pc = "spawn" => ENABLED Spawn
    /\ reader_pc = "pop" => ENABLED PopCall
    /\ reader_pc = "handle" => ENABLED HandleMessage
    /\ reader_pc = "loop" => ENABLED LoopGuard

C15_ReaderSteps ==
    /\ (reader_pc = "loop" /\ reader_pc' # "loop" /\ ~stop) => reader_pc' = "read"
    /\ (reader_pc = "spawn" /\ reader_pc' # "spawn") => reader_pc' = "pop"
    /\ (reader_pc = "pop" /\ reader_pc' # "pop")
       => /\ reader_pc' = "loop"
          /\ message.txid \notin DOMAIN callbacks'
          /\ cb_threads' = cb_threads
    /\ (reader_pc # "spawn" /\ reader_pc' # reader_pc) => cb_threads' = cb_threads

C15_CallbackDoesNotStallReader == []C15_ReaderCanStep /\ [][C15_ReaderSteps]_vars

\* the reader has handled the next frame, an acknowledgment, while the
\* callback thread a completion frame started has not yet run
C15_Witness ==
    \E th \in cb_threads :
        /\ th.pc = "run"
        /\ th.cb.call = 1
        /\ th.cb.call \notin {callbacks[t].call : t \in DOMAIN callbacks}
        /\ reader_pc \in {"loop", "read"}
        /\ message.ok /\ message.code > th.args[1]
        /\ message.txid \in call_acknowledged

\* C16: under fair scheduling of the callers, the reader and the callback
\* threads, with the peer delivering both frames of every transaction, a
\* blocking call that has been begun returns in the end, also when other
\* blocking calls run on other threads at the same time.
C16_BlockingCallReturns ==
    \A c \in Callers :
        (kind[c] = "blocking" /\ pc[c] = "register") ~> (pc[c] = "done")

\* two blocking calls, on two threads, were in flight together and both
\* have returned
C16_Witness ==
    \E c, d \in Callers :
        /\ c # d
        /\ kind[c] = "blocking" /\ kind[d] = "blocking"
        /\ pc[c] = "done" /\ pc[d] = "done"
        /\ Len(delivered[c]) = 1 /\ Len(delivered[d]) = 1
        /\ mark[c] = mark[d]

\* C17: no wake-up is lost to a single caller. The signal is cleared by
\* line 62 alone, before the request is written; a call without an id is
\* past line 66 only if the signal was set after its clear; and if it was,
\* at any moment from the clear on, the caller's wait ends and the call
\* returns.
C17_ClearedBeforeWrite ==
    /\ (response_event /\ ~response_event')
       => \E c \in Callers : pc[c] = "clear" /\ pc'[c] = "write"
    /\ \A c \in Callers :
          /\ (pc[c] = "clear" /\ pc'[c] = "write") => ~response_event'
          /\ pc[c] \in {"write", "wait_event", "event_blocked", "event_woken"} => (response_event => response_event')

C17_ReturnsOnlyIfSignalled ==
    \A c \in Callers :
        (kind[c] = "sync" /\ pc[c] \in {"event_woken", "return", "done"}) => nset > mark[c]

C17_NoLostWakeup ==
    /\ [][C17_ClearedBeforeWrite]_vars
    /\ []C17_ReturnsOnlyIfSignalled
    /\ (kind[1] = "sync" /\ pc[1] \in {"write", "wait_event", "event_blocked", "event_woken"} /\ nset > mark[1])
         ~> (pc[1] = "done")

\* the response was handled after the write and before the caller has
\* begun to wait at line 66
C17_Witness ==
    /\ kind[1] = "sync" /\ pc[1] = "wait_event"
    /\ njunk = 0 /\ nsent = 1 /\ nset = mark[1] + 1
    /\ reader_pc \in {"loop", "read"} /\ message.txid = TidBase
    /\ response_event
    /\ response = << message.code, message.body >>

\* C18: the callback of a call with an id is in self.callbacks before the
\* request is written. With no id reused and the reader reading nothing
\* but the peer's answers, the write finds the call's own callback
\* registered, and no frame the reader handles bears an id that is not in
\* self.callbacks.
C18_WriteFindsEntry ==
    \A c \in Callers :
        (pc[c] = "write" /\ pc'[c] = "wait_event" /\ kind[c] # "sync" /\ njunk = 0)
        => /\ TidWord(tid[c]) \in DOMAIN callbacks
           /\ callbacks[TidWord(tid[c])] = Callback(c, cur[c], kind[c])
           /\ TidWord(tid[c]) \notin DOMAIN owed

C18_AnswerFindsEntry ==
    (njunk = 0 /\ reader_pc = "handle")
    => /\ message.ok
       /\ message.txid # 0
       /\ message.txid # TidBase => message.txid \in DOMAIN callbacks

C18_RegisteredBeforeWritten == []C18_AnswerFindsEntry /\ [][C18_WriteFindsEntry]_vars

\* the acknowledgment has been handled as one while the caller has not yet
\* begun to wait at line 66
C18_Witness ==
    \E c \in Callers :
        /\ kind[c] # "sync" /\ pc[c] = "wait_event" /\ njunk = 0
        /\ reader_pc \in {"loop", "read"} /\ message.txid = TidWord(tid[c])
        /\ TidWord(tid[c]) \in call_acknowledged
        /\ owed[TidWord(tid[c])] = 1

\* C19: the acknowledged tags are keys of self.callbacks in every state,
\* and when an entry leaves self.callbacks its tag is acknowledged no more.
C19_AckedAreRegistered == call_acknowledged \subseteq DOMAIN callbacks

C19_UnmarkedBeforeRemoved ==
    \A t \in DOMAIN callbacks :
        t \notin DOMAIN callbacks' => (t \notin call_acknowledged /\ t \notin call_acknowledged')

C19_AckedSubsetOfTable == []C19_AckedAreRegistered /\ [][C19_UnmarkedBeforeRemoved]_vars

\* an entry has been removed by a completion, after its tag had been
\* acknowledged, while another tag is acknowledged
C19_Witness ==
    /\ reader_pc \in {"loop", "read"} /\ message.ok /\ message.code # 80
    /\ message.txid \notin DOMAIN callbacks
    /\ message.txid \notin {0, TidBase}
    /\ call_acknowledged # {}

\* ------------------------------------------------------------------------
\* The codec: properties
\* ------------------------------------------------------------------------

\* C8: unpack gives back what pack was given: decoding the whole output of
\* pack, under the format with n for each integer and s for each array,
\* succeeds and returns the values in order.
C8_RoundTrip ==
    (codec_pc = "unpacked" /\ p_ret.ok /\ u_data = p_ret.out
       /\ u_fmt = DecodeFormat(p_fmt))
    => (u_ret.ok /\ u_ret.out = p_args)

\* C9: the occupied length v of an array goes out, after the tag 0x55, as
\* the one byte v when v < 128, and otherwise as 0x80 + n followed by the n
\* bytes of v, least significant first, n the fewest bytes that hold v; the
\* decoder reads v back.
C9_ExtendedCount ==
    (codec_pc \in {"packed", "unpacked"} /\ p_ret.ok /\ Len(p_args) = 1
       /\ Head(p_fmt) = "s")
    => LET v   == Len(p_args[1])
           out == p_ret.out
           n   == IF v < 256 THEN 1 ELSE IF v < 65536 THEN 2 ELSE 3
       IN  /\ out[1] = 85
           /\ v < 128 => out[2] = v
           /\ v >= 128
              => /\ out[2] = 128 + n
                 /\ out[3] = v % 256
                 /\ n >= 2 => out[4] = (v \div 256) % 256
                 /\ n >= 3 => out[5] = (v \div 65536) % 256
           /\ (codec_pc = "unpacked" /\ u_data = out)
              => (u_ret.ok /\ Len(u_ret.out) = 1 /\ Len(u_ret.out[1]) = v)

\* C10: unpack fails on a buffer that is cut short, and on an array field
\* whose first byte is not one of the tags 0x55, 0x56, 0x57.
C10_MalformedFails ==
    (codec_pc = "unpacked" /\ p_ret.ok /\ u_fmt = DecodeFormat(p_fmt))
    => /\ (Len(u_data) < Len(p_ret.out) /\ u_data = SubSeq(p_ret.out, 1, Len(u_data)))
          => ~u_ret.ok
       /\ (Head(p_fmt) = "s" /\ u_data = << 84 >> \o Tail(p_ret.out))
          => ~u_ret.ok

====
